---- MODULE Spec2Model ----
(***************************************************************************)
(* A model of the gateway's listener lifecycle (src/main.go), of the       *)
(* embedding pipeline (src/internal/controller/copilot/chunks.go), of the  *)
(* chat handler (src/internal/controller/copilot/utils.go) and of the      *)
(* embedding client (src/unnamed/part_001).                                *)
(*                                                                         *)
(* Six groups of variables, one per part of the program, each with its     *)
(* own specification:                                                      *)
(*   SpecLife / SpecLifeFair : main(), the listener tasks, the reload and  *)
(*                             shutdown goroutine                          *)
(*   SpecSplit               : ChunkService.SplitIntoChunks                *)
(*   SpecEmbed               : ChunkService.GenerateEmbeddings             *)
(*   SpecChat                : ChatCompletions                             *)
(*   SpecClient              : EmbeddingClient.SetModel / GetEmbeddings    *)
(*   SpecPool / SpecPoolFair : generateEmbeddingsParallel, counted workers *)
(***************************************************************************)
EXTENDS Integers, Sequences, FiniteSets, TLC

VARIABLES
    \* ---- main.go ----
    mpc,            \* position of main()
    serverStarted,  \* number of tokens in the channel serverStarted (cap 2)
    httpServer,     \* the plaintext server and its task
    tls,            \* every TLS server instance ever created, in creation order
    httpsServer,    \* the live TLS handle: index into tls, 0 = nil
    hpc,            \* position of the reload/shutdown goroutine
    reloadChan,     \* pending certificate-change notifications
    certChanges,    \* number of certificate replacements so far
    quit,           \* pending termination signals (cap 1)
    quitSeen,       \* the goroutine took the quit branch
    gErr,           \* errgroup: first non-nil error returned by a task
    ctxDone,        \* the lifecycle context ctx was cancelled
    reported,       \* what main logs after g.Wait()
    \* ---- chunks.go, SplitIntoChunks ----
    content,        \* the content to split, a sequence of bytes
    path,           \* the path that labels the chunks
    dimension,      \* EMBEDDING_DIMENSION_SIZE
    spc,            \* position of SplitIntoChunks
    lines,          \* strings.Split(content, "\n")
    li,             \* index of the line the loop is at
    sb,             \* the strings.Builder
    start,          \* byte offset of the chunk being built
    chunks,         \* the chunks sealed so far
    \* ---- chunks.go, GenerateEmbeddings ----
    echunks,        \* the chunks handed to GenerateEmbeddings
    epc,            \* position of GenerateEmbeddings
    ei,             \* loop index (serial loop, spawn loop)
    wpc,            \* position of each worker goroutine
    semaphore,      \* permits taken from the semaphore channel
    errChan,        \* the errors sent to errChan, in order
    eret,           \* what GenerateEmbeddings returned
    upCalled,       \* chunks for which the upstream was called
    upFailed,       \* chunks for which the upstream call failed
    \* ---- utils.go, ChatCompletions ----
    request,        \* the inbound request: body, User-Agent, how it reads
    env,            \* the environment the handler reads its configuration from
    cpc,            \* position of ChatCompletions
    body,           \* the local variable body
    chatAPIURL,     \* the upstream selected
    status,         \* the status written to the caller, 0 = none yet
    written,        \* the bytes written to the caller
    upstream,       \* the requests sent upstream, in order
    \* ---- part_001, EmbeddingClient ----
    cmodel,         \* the client's field model
    clientMutex,    \* the client's RWMutex: writer held, number of readers
    setpc,          \* position of the SetModel call
    setArg,         \* the model SetModel was called with
    gpc,            \* position of each GetEmbeddings call
    gafter,         \* the call was made after SetModel had returned
    sentModel,      \* the model each call put into its upstream request
    \* ---- chunks.go, generateEmbeddingsParallel with counted workers ----
    pn,             \* len(chunks)
    ppc,            \* position of generateEmbeddingsParallel
    pi,             \* workers started by the loop
    nSpawned,       \* workers before their send on the semaphore
    nCalling,       \* workers holding a permit with the upstream call outstanding
    nReturned,      \* workers whose call has returned, permit not yet released
    nDone,          \* workers that released their permit and called wg.Done
    nCalls,         \* upstream calls made
    nErr,           \* errors buffered in errChan
    pret            \* what generateEmbeddingsParallel returned

lifeVars == <<mpc, serverStarted, httpServer, tls, httpsServer, hpc, reloadChan,
              certChanges, quit, quitSeen, gErr, ctxDone, reported>>

splitVars == <<content, path, dimension, spc, lines, li, sb, start, chunks>>

embedVars == <<echunks, epc, ei, wpc, semaphore, errChan, eret, upCalled, upFailed>>

chatVars == <<request, env, cpc, body, chatAPIURL, status, written, upstream>>

clientVars == <<cmodel, clientMutex, setpc, setArg, gpc, gafter, sentModel>>

poolVars == <<pn, ppc, pi, nSpawned, nCalling, nReturned, nDone, nCalls, nErr, pret>>

vars == <<lifeVars, splitVars, embedVars, chatVars, clientVars, poolVars>>

(***************************************************************************)
(* Bounds and program constants                                            *)
(***************************************************************************)
MaxCertChanges == 2

ServerStartedCap == 2

QuitCap == 1

ReloadChanCap == 1

MaxContentLen == 4

MaxDimension == 3

MaxChunks == 6

MaxUpstreamFailures == 1

MaxMessages == 2

MaxTools == 2

MaxTokensValue == 3

MaxNValue == 3

MaxCallers == 2

MaxWorkers == 12

\* len(chunks) <= 5: the serial path
SerialLimit == 5

\* semaphore := make(chan struct{}, 10)
SemaphoreCap == 10

(***************************************************************************)
(* Each specification runs one part of the program and holds the           *)
(* variables of the other parts at these values.                           *)
(***************************************************************************)
\* GenerateEmbeddings' error result: nil, or the error of the chunk whose
\* upstream call failed ([chunk |-> i], i >= 1).
NilError == [chunk |-> 0]

\* The call has not returned yet.
NotReturned == [chunk |-> -1]

LifeIdle ==
    /\ mpc = "idle"
    /\ serverStarted = 0
    /\ httpServer = [st |-> "none", shut |-> FALSE, err |-> "none", served |-> FALSE]
    /\ tls = <<>>
    /\ httpsServer = 0
    /\ hpc = "none"
    /\ reloadChan = 0
    /\ certChanges = 0
    /\ quit = 0
    /\ quitSeen = FALSE
    /\ gErr = "none"
    /\ ctxDone = FALSE
    /\ reported = "none"

SplitIdle ==
    /\ content = <<>>
    /\ path = <<>>
    /\ dimension = 0
    /\ spc = "idle"
    /\ lines = <<>>
    /\ li = 0
    /\ sb = <<>>
    /\ start = 0
    /\ chunks = <<>>

EmbedIdle ==
    /\ echunks = <<>>
    /\ epc = "idle"
    /\ ei = 0
    /\ wpc = <<>>
    /\ semaphore = 0
    /\ errChan = <<>>
    /\ eret = NotReturned
    /\ upCalled = {}
    /\ upFailed = {}

ChatIdle ==
    /\ request = <<>>
    /\ env = <<>>
    /\ cpc = "idle"
    /\ body = <<>>
    /\ chatAPIURL = ""
    /\ status = 0
    /\ written = <<>>
    /\ upstream = <<>>

ClientIdle ==
    /\ cmodel = ""
    /\ clientMutex = [writer |-> FALSE, readers |-> 0]
    /\ setpc = "idle"
    /\ setArg = ""
    /\ gpc = <<>>
    /\ gafter = <<>>
    /\ sentModel = <<>>

PoolIdle ==
    /\ pn = 0
    /\ ppc = "idle"
    /\ pi = 0
    /\ nSpawned = 0
    /\ nCalling = 0
    /\ nReturned = 0
    /\ nDone = 0
    /\ nCalls = 0
    /\ nErr = 0
    /\ pret = "none"

(***************************************************************************)
(* Listener tasks.  A server record is                                     *)
(*   st     : where its task is                                            *)
(*            "spawned"  g.Go was called, the task has not run yet         *)
(*            "starting" about to call ListenAndServe(TLS)                 *)
(*            "bound"    net.Listen succeeded, Serve not yet entered       *)
(*            "serving"  in the accept loop                                *)
(*            "stopped"  listener closed by Shutdown, task not yet back    *)
(*            "returned" the task function returned                        *)
(*   shut   : Shutdown was called on the server (inShutdown)               *)
(*   err    : what the task returned: "none" | "closed" | "bind" | "cert"  *)
(*            | "accept"                                                   *)
(*   served : the server has entered the accept loop at some time          *)
(***************************************************************************)
NewServer == [st |-> "spawned", shut |-> FALSE, err |-> "none", served |-> FALSE]

Returned(s, e) == [s EXCEPT !.st = "returned", !.err = e]

\* http.Server.Shutdown: marks the server, closes its tracked listeners.
Shutdown(s) ==
    [s EXCEPT !.shut = TRUE,
              !.st = IF s.st = "serving" THEN "stopped" ELSE s.st]

\* errgroup.Group.Go: the first non-nil error is kept and cancels groupCtx.
GroupErr(e) == IF gErr = "none" THEN e ELSE gErr

groupCtxDone == gErr # "none"

\* The TLS port is held by an instance between net.Listen and the close of
\* its listener.
PortHeld(s) == s.st \in {"bound", "serving"}

TlsPortFree == \A j \in 1..Len(tls) : ~PortHeld(tls[j])

Accepting(s) == s.st = "serving"

(***************************************************************************)
(* main()                                                                  *)
(***************************************************************************)
LifeInit ==
    /\ mpc = "goHTTP"
    /\ serverStarted = 0
    /\ httpServer = [NewServer EXCEPT !.st = "none"]
    /\ tls = <<>>
    /\ httpsServer = 0
    /\ hpc = "none"
    /\ reloadChan = 0
    /\ certChanges = 0
    /\ quit = 0
    /\ quitSeen = FALSE
    /\ gErr = "none"
    /\ ctxDone = FALSE
    /\ reported = "none"
    /\ SplitIdle
    /\ EmbedIdle
    /\ ChatIdle
    /\ ClientIdle
    /\ PoolIdle

\* g.Go(func() error { ... httpServer.ListenAndServe() })
MainGoHTTP ==
    /\ mpc = "goHTTP"
    /\ httpServer' = NewServer
    /\ mpc' = "startHTTPS"
    /\ UNCHANGED <<splitVars, embedVars, chatVars, clientVars, poolVars, serverStarted, tls, httpsServer, hpc, reloadChan, certChanges,
                   quit, quitSeen, gErr, ctxDone, reported>>

\* startHTTPSServer(): a new server object and its task.
StartHTTPSServer == Append(tls, NewServer)

MainStartHTTPS ==
    /\ mpc = "startHTTPS"
    /\ tls' = StartHTTPSServer
    /\ mpc' = "assignHTTPS"
    /\ UNCHANGED <<splitVars, embedVars, chatVars, clientVars, poolVars, serverStarted, httpServer, httpsServer, hpc, reloadChan,
                   certChanges, quit, quitSeen, gErr, ctxDone, reported>>

\* httpsServer = <the value startHTTPSServer returned>
MainAssignHTTPS ==
    /\ mpc = "assignHTTPS"
    /\ httpsServer' = Len(tls)
    /\ mpc' = "wait1"
    /\ UNCHANGED <<splitVars, embedVars, chatVars, clientVars, poolVars, serverStarted, httpServer, tls, hpc, reloadChan, certChanges,
                   quit, quitSeen, gErr, ctxDone, reported>>

\* <-serverStarted, twice
MainWait ==
    /\ mpc \in {"wait1", "wait2"}
    /\ serverStarted > 0
    /\ serverStarted' = serverStarted - 1
    /\ mpc' = IF mpc = "wait1" THEN "wait2" ELSE "ready"
    /\ UNCHANGED <<splitVars, embedVars, chatVars, clientVars, poolVars, httpServer, tls, httpsServer, hpc, reloadChan, certChanges,
                   quit, quitSeen, gErr, ctxDone, reported>>

\* ShowAppLaunchMessage(); signal.Notify(quit, ...); go func() { for { select ... } }()
MainLaunch ==
    /\ mpc = "ready"
    /\ hpc' = "select"
    /\ mpc' = "waitCtx"
    /\ UNCHANGED <<splitVars, embedVars, chatVars, clientVars, poolVars, serverStarted, httpServer, tls, httpsServer, reloadChan,
                   certChanges, quit, quitSeen, gErr, ctxDone, reported>>

\* <-ctx.Done()
MainCtxDone ==
    /\ mpc = "waitCtx"
    /\ ctxDone
    /\ mpc' = "shutHTTP"
    /\ UNCHANGED <<splitVars, embedVars, chatVars, clientVars, poolVars, serverStarted, httpServer, tls, httpsServer, hpc, reloadChan,
                   certChanges, quit, quitSeen, gErr, ctxDone, reported>>

\* httpServer.Shutdown(shutdownCtx)
MainShutHTTP ==
    /\ mpc = "shutHTTP"
    /\ httpServer' = Shutdown(httpServer)
    /\ mpc' = "shutHTTPS"
    /\ UNCHANGED <<splitVars, embedVars, chatVars, clientVars, poolVars, serverStarted, tls, httpsServer, hpc, reloadChan, certChanges,
                   quit, quitSeen, gErr, ctxDone, reported>>

\* httpsServer.Shutdown(shutdownCtx)
MainShutHTTPS ==
    /\ mpc = "shutHTTPS"
    /\ tls' = [tls EXCEPT ![httpsServer] = Shutdown(tls[httpsServer])]
    /\ mpc' = "gWait"
    /\ UNCHANGED <<splitVars, embedVars, chatVars, clientVars, poolVars, serverStarted, httpServer, httpsServer, hpc, reloadChan,
                   certChanges, quit, quitSeen, gErr, ctxDone, reported>>

AllTasksReturned ==
    /\ httpServer.st = "returned"
    /\ \A i \in 1..Len(tls) : tls[i].st = "returned"

\* Mutant of MainWaitGroup: main does not wait for the tasks.
MainWaitGroupNoWait ==
    /\ mpc = "gWait"
    /\ reported' = IF gErr \in {"none", "closed"} THEN "closed" ELSE gErr
    /\ mpc' = "exit"
    /\ UNCHANGED <<splitVars, embedVars, chatVars, clientVars, poolVars, serverStarted, httpServer, tls, httpsServer, hpc, reloadChan,
                   certChanges, quit, quitSeen, gErr, ctxDone>>

\* if err := g.Wait(); err != nil && err != http.ErrServerClosed { log ... }
MainWaitGroup ==
    /\ mpc = "gWait"
    /\ AllTasksReturned
    /\ reported' = IF gErr \in {"none", "closed"} THEN "closed" ELSE gErr
    /\ mpc' = "exit"
    /\ UNCHANGED <<splitVars, embedVars, chatVars, clientVars, poolVars, serverStarted, httpServer, tls, httpsServer, hpc, reloadChan,
                   certChanges, quit, quitSeen, gErr, ctxDone>>

(***************************************************************************)
(* The plaintext listener task                                             *)
(***************************************************************************)
\* serverStarted <- struct{}{}
HttpSignal ==
    /\ httpServer.st = "spawned"
    /\ serverStarted < ServerStartedCap
    /\ serverStarted' = serverStarted + 1
    /\ httpServer' = [httpServer EXCEPT !.st = "starting"]
    /\ UNCHANGED <<splitVars, embedVars, chatVars, clientVars, poolVars, mpc, tls, httpsServer, hpc, reloadChan, certChanges, quit,
                   quitSeen, gErr, ctxDone, reported>>

\* ListenAndServe: ErrServerClosed when already shut down, else net.Listen,
\* which the operating system may refuse.
HttpListen ==
    /\ httpServer.st = "starting"
    /\ \/ /\ httpServer.shut
          /\ httpServer' = Returned(httpServer, "closed")
          /\ gErr' = GroupErr("closed")
       \/ /\ ~httpServer.shut
          /\ httpServer' = [httpServer EXCEPT !.st = "bound"]
          /\ gErr' = gErr
       \/ /\ ~httpServer.shut
          /\ httpServer' = Returned(httpServer, "bind")
          /\ gErr' = GroupErr("bind")
    /\ UNCHANGED <<splitVars, embedVars, chatVars, clientVars, poolVars, mpc, serverStarted, tls, httpsServer, hpc, reloadChan,
                   certChanges, quit, quitSeen, ctxDone, reported>>

\* Server.Serve: refuses a listener once the server is shutting down.
HttpServe ==
    /\ httpServer.st = "bound"
    /\ \/ /\ httpServer.shut
          /\ httpServer' = Returned(httpServer, "closed")
          /\ gErr' = GroupErr("closed")
       \/ /\ ~httpServer.shut
          /\ httpServer' = [httpServer EXCEPT !.st = "serving", !.served = TRUE]
          /\ gErr' = gErr
    /\ UNCHANGED <<splitVars, embedVars, chatVars, clientVars, poolVars, mpc, serverStarted, tls, httpsServer, hpc, reloadChan,
                   certChanges, quit, quitSeen, ctxDone, reported>>

\* The accept loop ends with ErrServerClosed after Shutdown.
HttpReturn ==
    /\ httpServer.st = "stopped"
    /\ httpServer' = Returned(httpServer, "closed")
    /\ gErr' = GroupErr("closed")
    /\ UNCHANGED <<splitVars, embedVars, chatVars, clientVars, poolVars, mpc, serverStarted, tls, httpsServer, hpc, reloadChan,
                   certChanges, quit, quitSeen, ctxDone, reported>>

\* The accept loop ends with a socket error of its own.
HttpAcceptError ==
    /\ httpServer.st = "serving"
    /\ httpServer' = Returned(httpServer, "accept")
    /\ gErr' = GroupErr("accept")
    /\ UNCHANGED <<splitVars, embedVars, chatVars, clientVars, poolVars, mpc, serverStarted, tls, httpsServer, hpc, reloadChan,
                   certChanges, quit, quitSeen, ctxDone, reported>>

(***************************************************************************)
(* The TLS listener tasks                                                  *)
(***************************************************************************)
\* What the task of instance i may read in httpsServer.  The first instance
\* reads it while main writes it, with no synchronisation: it sees nil or the
\* assigned value.  Later instances are started by the reload goroutine,
\* after main's assignment.
HttpsServerSeenBy(i) ==
    IF i = 1 THEN (IF httpsServer = 0 THEN {0} ELSE {0, httpsServer})
    ELSE {httpsServer}

\* if httpsServer == nil { serverStarted <- struct{}{} }
TlsSignal(i) ==
    /\ tls[i].st = "spawned"
    /\ \E seen \in HttpsServerSeenBy(i) :
          IF seen = 0
          THEN /\ serverStarted < ServerStartedCap
               /\ serverStarted' = serverStarted + 1
          ELSE serverStarted' = serverStarted
    /\ tls' = [tls EXCEPT ![i].st = "starting"]
    /\ UNCHANGED <<splitVars, embedVars, chatVars, clientVars, poolVars, mpc, httpServer, httpsServer, hpc, reloadChan, certChanges,
                   quit, quitSeen, gErr, ctxDone, reported>>

\* ListenAndServeTLS: ErrServerClosed when already shut down, else net.Listen
\* on the TLS address, which fails while another instance holds the port and
\* which the operating system may refuse.
TlsListen(i) ==
    /\ tls[i].st = "starting"
    /\ \/ /\ tls[i].shut
          /\ tls' = [tls EXCEPT ![i] = Returned(tls[i], "closed")]
          /\ gErr' = GroupErr("closed")
       \/ /\ ~tls[i].shut
          /\ TlsPortFree
          /\ tls' = [tls EXCEPT ![i].st = "bound"]
          /\ gErr' = gErr
       \/ /\ ~tls[i].shut
          /\ tls' = [tls EXCEPT ![i] = Returned(tls[i], "bind")]
          /\ gErr' = GroupErr("bind")
    /\ UNCHANGED <<splitVars, embedVars, chatVars, clientVars, poolVars, mpc, serverStarted, httpServer, httpsServer, hpc, reloadChan,
                   certChanges, quit, quitSeen, ctxDone, reported>>

\* ServeTLS: loads certFile/keyFile (the material a replacement installed may
\* be unusable), then Serve, which refuses a listener once shutting down.
TlsServe(i) ==
    /\ tls[i].st = "bound"
    /\ \/ /\ i > 1
          /\ tls' = [tls EXCEPT ![i] = Returned(tls[i], "cert")]
          /\ gErr' = GroupErr("cert")
       \/ /\ tls[i].shut
          /\ tls' = [tls EXCEPT ![i] = Returned(tls[i], "closed")]
          /\ gErr' = GroupErr("closed")
       \/ /\ ~tls[i].shut
          /\ tls' = [tls EXCEPT ![i].st = "serving", ![i].served = TRUE]
          /\ gErr' = gErr
    /\ UNCHANGED <<splitVars, embedVars, chatVars, clientVars, poolVars, mpc, serverStarted, httpServer, httpsServer, hpc, reloadChan,
                   certChanges, quit, quitSeen, ctxDone, reported>>

TlsReturn(i) ==
    /\ tls[i].st = "stopped"
    /\ tls' = [tls EXCEPT ![i] = Returned(tls[i], "closed")]
    /\ gErr' = GroupErr("closed")
    /\ UNCHANGED <<splitVars, embedVars, chatVars, clientVars, poolVars, mpc, serverStarted, httpServer, httpsServer, hpc, reloadChan,
                   certChanges, quit, quitSeen, ctxDone, reported>>

TlsAcceptError(i) ==
    /\ tls[i].st = "serving"
    /\ tls' = [tls EXCEPT ![i] = Returned(tls[i], "accept")]
    /\ gErr' = GroupErr("accept")
    /\ UNCHANGED <<splitVars, embedVars, chatVars, clientVars, poolVars, mpc, serverStarted, httpServer, httpsServer, hpc, reloadChan,
                   certChanges, quit, quitSeen, ctxDone, reported>>

(***************************************************************************)
(* The reload/shutdown goroutine: for { select { ... } }                   *)
(***************************************************************************)
\* case <-reloadChan:
HandlerReload ==
    /\ hpc = "select"
    /\ reloadChan > 0
    /\ reloadChan' = reloadChan - 1
    /\ hpc' = "shutOld"
    /\ UNCHANGED <<splitVars, embedVars, chatVars, clientVars, poolVars, mpc, serverStarted, httpServer, tls, httpsServer, certChanges,
                   quit, quitSeen, gErr, ctxDone, reported>>

\* Mutant of HandlerShutOld: the reload starts the new instance without
\* shutting the old one down.
HandlerShutOldSkipped ==
    /\ hpc = "shutOld"
    /\ hpc' = "startNew"
    /\ UNCHANGED <<splitVars, embedVars, chatVars, clientVars, poolVars, mpc, serverStarted, httpServer, tls, httpsServer, reloadChan,
                   certChanges, quit, quitSeen, gErr, ctxDone, reported>>

\* httpsServer.Shutdown(shutdownCtx)
HandlerShutOld ==
    /\ hpc = "shutOld"
    /\ tls' = [tls EXCEPT ![httpsServer] = Shutdown(tls[httpsServer])]
    /\ hpc' = "startNew"
    /\ UNCHANGED <<splitVars, embedVars, chatVars, clientVars, poolVars, mpc, serverStarted, httpServer, httpsServer, reloadChan,
                   certChanges, quit, quitSeen, gErr, ctxDone, reported>>

\* startHTTPSServer()
HandlerStartNew ==
    /\ hpc = "startNew"
    /\ tls' = StartHTTPSServer
    /\ hpc' = "assign"
    /\ UNCHANGED <<splitVars, embedVars, chatVars, clientVars, poolVars, mpc, serverStarted, httpServer, httpsServer, reloadChan,
                   certChanges, quit, quitSeen, gErr, ctxDone, reported>>

\* Mutant of HandlerAssign: the reload drops the new instance's handle.
HandlerAssignDropped ==
    /\ hpc = "assign"
    /\ hpc' = "select"
    /\ UNCHANGED <<splitVars, embedVars, chatVars, clientVars, poolVars, mpc, serverStarted, httpServer, tls, httpsServer, reloadChan,
                   certChanges, quit, quitSeen, gErr, ctxDone, reported>>

\* httpsServer = <the value startHTTPSServer returned>
HandlerAssign ==
    /\ hpc = "assign"
    /\ httpsServer' = Len(tls)
    /\ hpc' = "select"
    /\ UNCHANGED <<splitVars, embedVars, chatVars, clientVars, poolVars, mpc, serverStarted, httpServer, tls, reloadChan, certChanges,
                   quit, quitSeen, gErr, ctxDone, reported>>

\* case <-quit: cancel(); return
HandlerQuit ==
    /\ hpc = "select"
    /\ quit > 0
    /\ quit' = quit - 1
    /\ quitSeen' = TRUE
    /\ ctxDone' = TRUE
    /\ hpc' = "exited"
    /\ UNCHANGED <<splitVars, embedVars, chatVars, clientVars, poolVars, mpc, serverStarted, httpServer, tls, httpsServer, reloadChan,
                   certChanges, gErr, reported>>

\* case <-groupCtx.Done(): cancel(); return
HandlerGroupDone ==
    /\ hpc = "select"
    /\ groupCtxDone
    /\ ctxDone' = TRUE
    /\ hpc' = "exited"
    /\ UNCHANGED <<splitVars, embedVars, chatVars, clientVars, poolVars, mpc, serverStarted, httpServer, tls, httpsServer, reloadChan,
                   certChanges, quit, quitSeen, gErr, reported>>

(***************************************************************************)
(* The environment                                                         *)
(***************************************************************************)
\* The certificate source replaces the material and notifies without
\* blocking: a notification that finds the channel full is dropped.
CertChange ==
    /\ certChanges < MaxCertChanges
    /\ mpc # "exit"
    /\ certChanges' = certChanges + 1
    /\ reloadChan' = IF reloadChan < ReloadChanCap THEN reloadChan + 1 ELSE reloadChan
    /\ UNCHANGED <<splitVars, embedVars, chatVars, clientVars, poolVars, mpc, serverStarted, httpServer, tls, httpsServer, hpc, quit,
                   quitSeen, gErr, ctxDone, reported>>

\* SIGINT/SIGTERM, delivered to quit once signal.Notify has run.
Interrupt ==
    /\ hpc # "none"
    /\ mpc # "exit"
    /\ quit < QuitCap
    /\ ~quitSeen
    /\ quit' = quit + 1
    /\ UNCHANGED <<splitVars, embedVars, chatVars, clientVars, poolVars, mpc, serverStarted, httpServer, tls, httpsServer, hpc,
                   reloadChan, certChanges, quitSeen, gErr, ctxDone, reported>>

MainStep ==
    \/ MainGoHTTP
    \/ MainStartHTTPS
    \/ MainAssignHTTPS
    \/ MainWait
    \/ MainLaunch
    \/ MainCtxDone
    \/ MainShutHTTP
    \/ MainShutHTTPS
    \/ MainWaitGroup

HttpStep == HttpSignal \/ HttpListen \/ HttpServe \/ HttpReturn

TlsStep == \E i \in 1..Len(tls) : TlsSignal(i) \/ TlsListen(i) \/ TlsServe(i) \/ TlsReturn(i)

HandlerStep ==
    \/ HandlerReload
    \/ HandlerShutOld
    \/ HandlerStartNew
    \/ HandlerAssign
    \/ HandlerQuit
    \/ HandlerGroupDone

\* A step of one of the program's goroutines.
GoroutineStep == MainStep \/ HttpStep \/ TlsStep \/ HandlerStep

\* An event of the environment.
SocketError == HttpAcceptError \/ \E i \in 1..Len(tls) : TlsAcceptError(i)

LifeNext == GoroutineStep \/ SocketError \/ CertChange \/ Interrupt

SpecLife == LifeInit /\ [][LifeNext]_vars

\* Every goroutine that can take a step eventually takes one; the
\* environment (certificate changes, signals) is under no obligation.
SpecLifeFair ==
    /\ SpecLife
    /\ WF_vars(MainStep)
    /\ WF_vars(HttpStep)
    /\ WF_vars(TlsStep)
    /\ WF_vars(HandlerStep)

(***************************************************************************)
(* chunks.go.  A string is a sequence of bytes, each a one-character       *)
(* string.                                                                 *)
(***************************************************************************)
NL == "\n"

\* The backquote byte (0x60), which the string syntax of TLA+ cannot hold.
BQ == "BQ"

\* markdownFilePrefix: File: <BQ>%s<BQ>, a newline, the shell fence
markdownFilePrefix(p) ==
    <<"F", "i", "l", "e", ":", " ", BQ>> \o p
        \o <<BQ, NL, BQ, BQ, BQ, "s", "h", "e", "l", "l", NL>>

\* markdownFileSuffix: three backquotes
markdownFileSuffix == <<BQ, BQ, BQ>>

\* The opening fence: three backquotes, shell, a newline
ShellFence == <<BQ, BQ, BQ, "s", "h", "e", "l", "l", NL>>

\* strings.Index(s, "\n"), 1-based; 0 when there is none.
IndexNL(s) ==
    IF \E k \in 1..Len(s) : s[k] = NL
    THEN CHOOSE k \in 1..Len(s) : s[k] = NL /\ \A j \in 1..(k - 1) : s[j] # NL
    ELSE 0

\* strings.Split(s, "\n")
RECURSIVE Split(_)
Split(s) ==
    IF IndexNL(s) = 0 THEN <<s>>
    ELSE <<SubSeq(s, 1, IndexNL(s) - 1)>> \o Split(SubSeq(s, IndexNL(s) + 1, Len(s)))

HasPrefix(s, p) == Len(s) >= Len(p) /\ SubSeq(s, 1, Len(p)) = p

HasSuffix(s, p) == Len(s) >= Len(p) /\ SubSeq(s, Len(s) - Len(p) + 1, Len(s)) = p

TrimPrefix(s, p) == IF HasPrefix(s, p) THEN SubSeq(s, Len(p) + 1, Len(s)) ELSE s

TrimSuffix(s, p) == IF HasSuffix(s, p) THEN SubSeq(s, 1, Len(s) - Len(p)) ELSE s

\* sha256.Sum256, taken as collision-free: the digest stands for its input.
Sha256(text) == [sha256 |-> text]

\* getChunkSize(): getDimensionSize() * 3 / 2
getChunkSize == (dimension * 3) \div 2

createChunk(text, p, s, e) ==
    [Hash |-> Sha256(text),
     Text |-> markdownFilePrefix(p) \o text \o markdownFileSuffix,
     Range |-> [Start |-> s, End |-> e],
     LineRange |-> [Start |-> s, End |-> e],
     Embedding |-> <<>>]

extractPlainText(text) ==
    LET afterHeader == IF IndexNL(text) # 0
                       THEN SubSeq(text, IndexNL(text) + 1, Len(text))
                       ELSE text
    IN  TrimSuffix(TrimPrefix(afterHeader, ShellFence), markdownFileSuffix)

(***************************************************************************)
(* SplitIntoChunks(content, path, model)                                   *)
(***************************************************************************)
Bytes == {"a", NL}

RECURSIVE StringsUpTo(_)
StringsUpTo(n) ==
    IF n = 0 THEN {<<>>}
    ELSE LET shorter == StringsUpTo(n - 1)
         IN  shorter \cup {Append(s, b) : s \in {t \in shorter : Len(t) = n - 1}, b \in Bytes}

Paths == {<<"p">>, <<"p", NL, "q">>, <<BQ>>}

SplitInit ==
    /\ content \in StringsUpTo(MaxContentLen)
    /\ path \in Paths
    /\ dimension \in 1..MaxDimension
    /\ spc = "split"
    /\ lines = <<>>
    /\ li = 0
    /\ sb = <<>>
    /\ start = 0
    /\ chunks = <<>>
    /\ LifeIdle
    /\ EmbedIdle
    /\ ChatIdle
    /\ ClientIdle
    /\ PoolIdle

\* lines := strings.Split(content, "\n"); var sb strings.Builder; start := 0
SplitLines ==
    /\ spc = "split"
    /\ lines' = Split(content)
    /\ li' = 1
    /\ spc' = "loop"
    /\ UNCHANGED <<lifeVars, embedVars, chatVars, clientVars, poolVars, content, path, dimension, sb, start, chunks>>

\* Mutant of SplitLoop: the budget test leaves the line's newline out.
SplitLoopIgnoresNewline ==
    /\ spc = "loop"
    /\ li <= Len(lines)
    /\ LET lineWithNewline == Append(lines[li], NL)
       IN  IF Len(sb) + Len(lines[li]) > getChunkSize /\ Len(sb) > 0
           THEN /\ chunks' = Append(chunks, createChunk(sb, path, start, start + Len(sb)))
                /\ start' = start + Len(sb)
                /\ sb' = lineWithNewline
           ELSE /\ sb' = sb \o lineWithNewline
                /\ UNCHANGED <<chunks, start>>
    /\ li' = li + 1
    /\ UNCHANGED <<lifeVars, embedVars, chatVars, clientVars, poolVars, content, path, dimension, spc, lines>>

\* One iteration of: for _, line := range lines { ... }
SplitLoop ==
    /\ spc = "loop"
    /\ li <= Len(lines)
    /\ LET lineWithNewline == Append(lines[li], NL)
       IN  IF Len(sb) + Len(lineWithNewline) > getChunkSize /\ Len(sb) > 0
           THEN /\ chunks' = Append(chunks, createChunk(sb, path, start, start + Len(sb)))
                /\ start' = start + Len(sb)
                /\ sb' = lineWithNewline
           ELSE /\ sb' = sb \o lineWithNewline
                /\ UNCHANGED <<chunks, start>>
    /\ li' = li + 1
    /\ UNCHANGED <<lifeVars, embedVars, chatVars, clientVars, poolVars, content, path, dimension, spc, lines>>

\* Mutant of SplitFinish: the last chunk's range restarts at 0.
SplitFinishRangeFromZero ==
    /\ spc = "loop"
    /\ li > Len(lines)
    /\ chunks' = IF Len(sb) > 0
                 THEN Append(chunks, createChunk(sb, path, 0, Len(sb)))
                 ELSE chunks
    /\ spc' = "done"
    /\ UNCHANGED <<lifeVars, embedVars, chatVars, clientVars, poolVars, content, path, dimension, lines, li, sb, start>>

\* if sb.Len() > 0 { ... }; return chunks
SplitFinish ==
    /\ spc = "loop"
    /\ li > Len(lines)
    /\ chunks' = IF Len(sb) > 0
                 THEN Append(chunks, createChunk(sb, path, start, start + Len(sb)))
                 ELSE chunks
    /\ spc' = "done"
    /\ UNCHANGED <<lifeVars, embedVars, chatVars, clientVars, poolVars, content, path, dimension, lines, li, sb, start>>

SplitNext == SplitLines \/ SplitLoop \/ SplitFinish

SpecSplit == SplitInit /\ [][SplitNext]_vars

(***************************************************************************)
(* GenerateEmbeddings(ctx, chunks)                                         *)
(***************************************************************************)
\* The texts of the chunks handed in: a, b and the empty line in turn,
\* starting at a or at b.
EmbedText(i, v) ==
    LET k == (i + v) % 3
    IN  IF k = 1 THEN <<"a", NL>> ELSE IF k = 2 THEN <<"b", NL>> ELSE <<NL>>

RECURSIVE EmbedOffset(_, _)
EmbedOffset(i, v) == IF i = 0 THEN 0 ELSE EmbedOffset(i - 1, v) + Len(EmbedText(i, v))

EmbedInput(n, v) ==
    [i \in 1..n |->
        createChunk(EmbedText(i, v), <<"p">>, EmbedOffset(i - 1, v), EmbedOffset(i, v))]

\* The stubbed upstream: a vector determined by the input text alone.
StubVector(text) == <<Len(text)>> \o text

\* EmbeddingClient.GetEmbedding: resp.Data[0].Embedding of the reply to the
\* single text.
GetEmbedding(text) == StubVector(text)

EmbedInit ==
    /\ \E n \in 0..MaxChunks, v \in 0..1 :
          /\ n > SerialLimit => v = 0
          /\ echunks = EmbedInput(n, v)
          /\ wpc = [i \in 1..n |-> "none"]
    /\ epc = "start"
    /\ ei = 0
    /\ semaphore = 0
    /\ errChan = <<>>
    /\ eret = NotReturned
    /\ upCalled = {}
    /\ upFailed = {}
    /\ LifeIdle
    /\ SplitIdle
    /\ ChatIdle
    /\ ClientIdle
    /\ PoolIdle

\* if len(chunks) == 0 { return nil }; if len(chunks) <= 5 { serial } else { parallel }
EmbedStart ==
    /\ epc = "start"
    /\ IF Len(echunks) = 0
       THEN epc' = "done" /\ eret' = NilError /\ ei' = ei
       ELSE /\ epc' = IF Len(echunks) <= SerialLimit THEN "serial" ELSE "spawn"
            /\ ei' = 1
            /\ eret' = eret
    /\ UNCHANGED <<lifeVars, splitVars, chatVars, clientVars, poolVars, echunks, wpc, semaphore, errChan, upCalled, upFailed>>

\* The upstream may fail for a chunk (at most MaxUpstreamFailures times).
UpstreamMayFail == Cardinality(upFailed) < MaxUpstreamFailures

\* Mutant of EmbedSerial: after a failed call the loop goes on to the next
\* chunk instead of returning.
EmbedSerialGoesOn ==
    /\ epc = "serial"
    /\ ei <= Len(echunks)
    /\ upCalled' = upCalled \cup {ei}
    /\ \/ /\ echunks' = [echunks EXCEPT
                ![ei].Embedding = GetEmbedding(extractPlainText(echunks[ei].Text))]
          /\ UNCHANGED upFailed
       \/ /\ UpstreamMayFail
          /\ upFailed' = upFailed \cup {ei}
          /\ UNCHANGED echunks
    /\ ei' = ei + 1
    /\ UNCHANGED <<epc, eret>>
    /\ UNCHANGED <<lifeVars, splitVars, chatVars, clientVars, poolVars, wpc, semaphore, errChan>>

\* generateEmbeddingsSerial: one iteration of the loop.
EmbedSerial ==
    /\ epc = "serial"
    /\ ei <= Len(echunks)
    /\ upCalled' = upCalled \cup {ei}
    /\ \/ /\ echunks' = [echunks EXCEPT
                ![ei].Embedding = GetEmbedding(extractPlainText(echunks[ei].Text))]
          /\ ei' = ei + 1
          /\ UNCHANGED <<epc, eret, upFailed>>
       \/ /\ UpstreamMayFail
          /\ upFailed' = upFailed \cup {ei}
          /\ eret' = [chunk |-> ei]
          /\ epc' = "done"
          /\ UNCHANGED <<echunks, ei>>
    /\ UNCHANGED <<lifeVars, splitVars, chatVars, clientVars, poolVars, wpc, semaphore, errChan>>

\* generateEmbeddingsSerial: return nil after the loop.
EmbedSerialReturn ==
    /\ epc = "serial"
    /\ ei > Len(echunks)
    /\ eret' = NilError
    /\ epc' = "done"
    /\ UNCHANGED <<lifeVars, splitVars, chatVars, clientVars, poolVars, echunks, ei, wpc, semaphore, errChan,
                   upCalled, upFailed>>

\* generateEmbeddingsParallel: wg.Add(1); go func(idx int) { ... }(i)
EmbedSpawn ==
    /\ epc = "spawn"
    /\ wpc' = [wpc EXCEPT ![ei] = "spawned"]
    /\ ei' = ei + 1
    /\ epc' = IF ei = Len(echunks) THEN "wait" ELSE "spawn"
    /\ UNCHANGED <<lifeVars, splitVars, chatVars, clientVars, poolVars, echunks, semaphore, errChan, eret,
                   upCalled, upFailed>>

\* semaphore <- struct{}{}
WorkerAcquire(idx) ==
    /\ wpc[idx] = "spawned"
    /\ semaphore < SemaphoreCap
    /\ semaphore' = semaphore + 1
    /\ wpc' = [wpc EXCEPT ![idx] = "holding"]
    /\ UNCHANGED <<lifeVars, splitVars, chatVars, clientVars, poolVars, echunks, epc, ei, errChan, eret,
                   upCalled, upFailed>>

\* Mutant of WorkerEmbed: the goroutine uses the loop variable instead of its
\* own index, so every worker embeds and writes the last chunk.
WorkerEmbedSharedIndex(idx) ==
    /\ wpc[idx] = "holding"
    /\ upCalled' = upCalled \cup {Len(echunks)}
    /\ \/ /\ echunks' = [echunks EXCEPT
                ![Len(echunks)].Embedding =
                    GetEmbedding(extractPlainText(echunks[Len(echunks)].Text))]
          /\ UNCHANGED <<errChan, upFailed>>
       \/ /\ UpstreamMayFail
          /\ upFailed' = upFailed \cup {Len(echunks)}
          /\ Len(errChan) < Len(echunks)
          /\ errChan' = Append(errChan, [chunk |-> Len(echunks)])
          /\ UNCHANGED echunks
    /\ wpc' = [wpc EXCEPT ![idx] = "release"]
    /\ UNCHANGED <<lifeVars, splitVars, chatVars, clientVars, poolVars, epc, ei, semaphore, eret>>

\* Mutant of WorkerEmbed: the worker writes the slot after its own.
WorkerEmbedNextSlot(idx) ==
    /\ wpc[idx] = "holding"
    /\ upCalled' = upCalled \cup {idx}
    /\ \/ /\ echunks' = [echunks EXCEPT
                ![(idx % Len(echunks)) + 1].Embedding =
                    GetEmbedding(extractPlainText(echunks[idx].Text))]
          /\ UNCHANGED <<errChan, upFailed>>
       \/ /\ UpstreamMayFail
          /\ upFailed' = upFailed \cup {idx}
          /\ Len(errChan) < Len(echunks)
          /\ errChan' = Append(errChan, [chunk |-> idx])
          /\ UNCHANGED echunks
    /\ wpc' = [wpc EXCEPT ![idx] = "release"]
    /\ UNCHANGED <<lifeVars, splitVars, chatVars, clientVars, poolVars, epc, ei, semaphore, eret>>

\* text := extractPlainText(chunks[idx].Text); GetEmbedding(ctx, text);
\* on error errChan <- err, else chunks[idx].Embedding.Embedding = embedding
WorkerEmbed(idx) ==
    /\ wpc[idx] = "holding"
    /\ upCalled' = upCalled \cup {idx}
    /\ \/ /\ echunks' = [echunks EXCEPT
                ![idx].Embedding = GetEmbedding(extractPlainText(echunks[idx].Text))]
          /\ UNCHANGED <<errChan, upFailed>>
       \/ /\ UpstreamMayFail
          /\ upFailed' = upFailed \cup {idx}
          /\ Len(errChan) < Len(echunks)
          /\ errChan' = Append(errChan, [chunk |-> idx])
          /\ UNCHANGED echunks
    /\ wpc' = [wpc EXCEPT ![idx] = "release"]
    /\ UNCHANGED <<lifeVars, splitVars, chatVars, clientVars, poolVars, epc, ei, semaphore, eret>>

\* The deferred calls: <-semaphore, then wg.Done()
WorkerRelease(idx) ==
    /\ wpc[idx] = "release"
    /\ semaphore' = semaphore - 1
    /\ wpc' = [wpc EXCEPT ![idx] = "done"]
    /\ UNCHANGED <<lifeVars, splitVars, chatVars, clientVars, poolVars, echunks, epc, ei, errChan, eret,
                   upCalled, upFailed>>

\* Mutant of EmbedCollect: the select takes its default branch although an
\* error is buffered, so the call returns nil.
EmbedCollectDefaultFirst ==
    /\ epc = "wait"
    /\ \A i \in 1..Len(echunks) : wpc[i] = "done"
    /\ eret' = NilError
    /\ errChan' = errChan
    /\ epc' = "done"
    /\ UNCHANGED <<lifeVars, splitVars, chatVars, clientVars, poolVars, echunks, ei, wpc, semaphore, upCalled, upFailed>>

\* wg.Wait(); close(errChan); select { case err := <-errChan: ... default: }
EmbedCollect ==
    /\ epc = "wait"
    /\ \A i \in 1..Len(echunks) : wpc[i] = "done"
    /\ eret' = IF errChan # <<>> THEN Head(errChan) ELSE NilError
    /\ errChan' = IF errChan # <<>> THEN Tail(errChan) ELSE errChan
    /\ epc' = "done"
    /\ UNCHANGED <<lifeVars, splitVars, chatVars, clientVars, poolVars, echunks, ei, wpc, semaphore, upCalled, upFailed>>

WorkerStep == \E idx \in 1..Len(echunks) :
    WorkerAcquire(idx) \/ WorkerEmbed(idx) \/ WorkerRelease(idx)

EmbedNext ==
    \/ EmbedStart
    \/ EmbedSerial
    \/ EmbedSerialReturn
    \/ EmbedSpawn
    \/ WorkerStep
    \/ EmbedCollect

SpecEmbed == EmbedInit /\ [][EmbedNext]_vars

(***************************************************************************)
(* ChatCompletions (src/internal/controller/copilot/utils.go).             *)
(*                                                                         *)
(* A request document is a record with one entry per member the handler or *)
(* a caller may name.  A member is <<>> when the key is absent and <<v>>   *)
(* when it is present with value v.  A string is a sequence of tokens, so  *)
(* strings.Contains is membership of a token and + is concatenation.       *)
(* A message is [role, content, tool_calls]; a tool is [type, function],   *)
(* function being an optional [name, parameters].  Indices are 1-based:    *)
(* Go's messages[i] is messages[i + 1] here.                               *)
(***************************************************************************)
\* strings.Contains(s, tok)
Contains(s, tok) == \E i \in 1..Len(s) : s[i] = tok

\* gjson: Result.Exists()
gjsonExists(m) == m # <<>>

\* gjson: Result.Int(), 0 for a missing member
gjsonInt(m) == IF m = <<>> THEN 0 ELSE m[1]

\* gjson: Result.Array(), empty for a missing member
gjsonArray(m) == IF m = <<>> THEN <<>> ELSE m[1]

\* gjson: Result.String(), "" for a missing member
gjsonString(m) == IF m = <<>> THEN <<>> ELSE m[1]

\* sjson.SetBytes(body, key, v)
SetBytes(b, key, v) == [b EXCEPT ![key] = <<v>>]

\* sjson.DeleteBytes(body, key): no change when the key is absent
DeleteBytes(b, key) == [b EXCEPT ![key] = <<>>]

\* os.Getenv("LIGHTWEIGHT_MODEL")
LightweightModel == "mini"

\* os.Getenv("CHAT_API_MODEL_NAME")
ChatModelName == <<"chat-model">>

\* os.Getenv("CODEX_API_MODEL_NAME")
CodexModelName == <<"codex-model">>

\* "You are a helpful AI programming assistant to a user"
Preamble == "You are a helpful AI programming assistant to a user"

\* "If you cannot choose just one category, ... you must always respond with"
Marker == "If you cannot choose just one category"

\* "You are an AI programming assistant"
VSPreamble == "You are an AI programming assistant"

\* The fixed follow-up-question prompt of the VS2022 client.
FollowUp == "Write a short one-sentence question"

\* "Respond in the following locale"
LocaleDirective == "Respond in the following locale"

\* "data: [DONE]\n\n"
DoneFrame == "data: [DONE]"

\* vs2022FirstChatTemplate: five fixed chunks and the terminating marker.
vs2022FirstChatTemplate ==
    <<"chunk:role", "chunk:role", "chunk:Explain", "chunk:empty", "chunk:stop",
      DoneFrame>>

\* map[string]interface{}{"type": "object", "properties": map[string]interface{}{}}
DefaultParameters == [type |-> "object", properties |-> {}]

StatusOK == 200

StatusBadRequest == 400

StatusRequestTimeout == 408

StatusInternalServerError == 500

\* strconv.ParseBool: the error case yields false.
ParseBool(s) == s \in {"1", "t", "T", "TRUE", "true", "True"}

Digits == {"0", "1", "2", "3", "4", "5", "6", "7", "8", "9"}

DigitValue(c) == CHOOSE d \in 0..9 : ToString(d) = c

RECURSIVE Decimal(_)
Decimal(s) == IF s = <<>> THEN 0
              ELSE 10 * Decimal(SubSeq(s, 1, Len(s) - 1)) + DigitValue(s[Len(s)])

\* strconv.Atoi of a string of characters: the error case (empty, or not a
\* number) yields 0.
Atoi(s) == IF s # <<>> /\ \A i \in 1..Len(s) : s[i] \in Digits
           THEN Decimal(s) ELSE 0

\* Lines 118-132: the upstream and the model name the request is routed to.
SelectTarget(b) ==
    IF Contains(gjsonString(b.model), LightweightModel)
    THEN [url |-> "codex", model |-> CodexModelName]
    ELSE [url |-> "chat", model |-> ChatModelName]

\* Lines 136-137: model := envModelName; stream := true
SetModelAndStream(b) ==
    SetBytes(SetBytes(b, "model", SelectTarget(b).model), "stream", TRUE)

\* Lines 140-146: delete tool_calls from every message whose list is empty.
StripEmptyToolCalls(b) ==
    LET messages == gjsonArray(b.messages)
    IN  IF messages = <<>> THEN b
        ELSE [b EXCEPT !.messages = << [i \in 1..Len(messages) |->
                 IF Len(gjsonArray(messages[i].tool_calls)) = 0
                 THEN [messages[i] EXCEPT !.tool_calls = <<>>]
                 ELSE messages[i]] >>]

\* Lines 147-151: append the locale sentence to the last message.  Evaluated
\* only when the message list is not empty (see IndexPanic).
InjectLocale(b, chatLocale) ==
    LET messages == gjsonArray(b.messages)
        lastIndex == Len(messages)
        text == messages[lastIndex].content
    IN  IF chatLocale # "" /\ ~Contains(text, LocaleDirective)
        THEN [b EXCEPT !.messages = << [messages EXCEPT ![lastIndex].content =
                 text \o <<LocaleDirective, ": ", chatLocale, ".">>] >>]
        ELSE b

\* Line 149 evaluates messages[lastIndex] with lastIndex = -1 when the list
\* is empty and a locale is configured: index out of range.
IndexPanic(b, chatLocale) ==
    /\ ~gjsonExists(b.function_call)
    /\ chatLocale # ""
    /\ Len(gjsonArray(b.messages)) = 0

\* Lines 139-152: both message rewrites sit inside the test for function_call.
NormalizeMessages(b, chatLocale) ==
    IF gjsonExists(b.function_call) THEN b
    ELSE InjectLocale(StripEmptyToolCalls(b), chatLocale)

\* Mutant of StripIntent: the field stripping also removes temperature.
StripIntentAndTemperature(b) ==
    DeleteBytes(DeleteBytes(DeleteBytes(DeleteBytes(DeleteBytes(b,
        "intent"), "intent_threshold"), "intent_content"), "logprobs"), "temperature")

\* Lines 154-157
StripIntent(b) ==
    DeleteBytes(DeleteBytes(DeleteBytes(DeleteBytes(b,
        "intent"), "intent_threshold"), "intent_content"), "logprobs")

\* Mutant of StripTools: tool_call is left in place.
StripToolsKeepsToolCall(b, chatUseTools) ==
    IF ~chatUseTools
    THEN DeleteBytes(DeleteBytes(DeleteBytes(DeleteBytes(b,
             "tools"), "functions"), "function_call"), "tool_choice")
    ELSE b

\* Lines 160-167
StripTools(b, chatUseTools) ==
    IF ~chatUseTools
    THEN DeleteBytes(DeleteBytes(DeleteBytes(DeleteBytes(DeleteBytes(b,
             "tools"), "tool_call"), "functions"), "function_call"), "tool_choice")
    ELSE b

\* Mutant of FillToolParameters: the default schema is written to every tool
\* that has a function object, replacing a schema the tool brought.
FillToolParametersOverwrite(b) ==
    IF gjsonExists(b.tools)
    THEN LET tools == gjsonArray(b.tools)
         IN  [b EXCEPT !.tools = << [i \in 1..Len(tools) |->
                 IF ~gjsonExists(tools[i].function) THEN tools[i]
                 ELSE [tools[i] EXCEPT !.function =
                          << [@[1] EXCEPT !.parameters = <<DefaultParameters>>] >>]] >>]
    ELSE b

\* Lines 168-185: a tool without a function object is skipped; a function
\* without parameters gets the default schema.
FillToolParameters(b) ==
    IF gjsonExists(b.tools)
    THEN LET tools == gjsonArray(b.tools)
         IN  [b EXCEPT !.tools = << [i \in 1..Len(tools) |->
                 IF ~gjsonExists(tools[i].function) THEN tools[i]
                 ELSE IF gjsonExists(tools[i].function[1].parameters) THEN tools[i]
                 ELSE [tools[i] EXCEPT !.function =
                          << [@[1] EXCEPT !.parameters = <<DefaultParameters>>] >>]] >>]
    ELSE b

\* Lines 186-189
ClampMaxTokens(b, ChatMaxTokens) ==
    IF gjsonInt(b.max_tokens) > ChatMaxTokens
    THEN SetBytes(b, "max_tokens", ChatMaxTokens)
    ELSE b

\* Mutant of ClampN: the threshold is 2 instead of 1.
ClampNAboveTwo(b) ==
    IF gjsonInt(b.n) > 2 THEN SetBytes(b, "n", 1) ELSE b

\* Lines 191-193
ClampN(b) ==
    IF gjsonInt(b.n) > 1 THEN SetBytes(b, "n", 1) ELSE b

\* Lines 136-193, in the order of the code.
Rewrite(b, e) ==
    ClampN(
    ClampMaxTokens(
    FillToolParameters(
    StripTools(
    StripIntent(
    NormalizeMessages(
    SetModelAndStream(b), e.CHAT_LOCALE)),
    ParseBool(e.CHAT_USE_TOOLS))),
    Atoi(e.CHAT_MAX_TOKENS)))

\* Lines 199-204: the probe signature, tested on the rewritten body.
IsProbe(b) ==
    LET messages == gjsonArray(b.messages)
    IN  /\ messages # <<>>
        /\ messages[1].role = "system"
        /\ Contains(messages[1].content, Preamble)
        /\ ~Contains(messages[1].content, Marker)
        /\ ~gjsonExists(b.tool_choice)

\* Line 213: the VS2022 first-chat signature.
IsVSFirstChat(b) ==
    LET messages == gjsonArray(b.messages)
    IN  /\ messages[1].role = "system"
        /\ Contains(messages[1].content, VSPreamble)

\* Line 217: the VS2022 follow-up-question prompt as the last message.
IsVSFollowUp(b) ==
    LET messages == gjsonArray(b.messages)
    IN  /\ messages[Len(messages)].role = "user"
        /\ messages[Len(messages)].content = <<FollowUp>>

\* Mutant of FailureStatus: a cancelled call is answered like any other failure.
FailureStatusAlways500(err) == StatusInternalServerError

\* Lines 241-249: the status for a failed client.Do.
FailureStatus(err) ==
    IF err = "canceled" THEN StatusRequestTimeout ELSE StatusInternalServerError

(***************************************************************************)
(* The requests and configurations the handler is run on.                  *)
(***************************************************************************)
SysProbe == [role |-> "system", content |-> <<Preamble>>, tool_calls |-> <<>>]

SysProbeLong ==
    [role |-> "system", content |-> <<Preamble, Marker>>, tool_calls |-> <<>>]

SysVS == [role |-> "system", content |-> <<VSPreamble>>, tool_calls |-> <<>>]

UserPlain == [role |-> "user", content |-> <<"hello">>, tool_calls |-> << <<>> >>]

UserLocale ==
    [role |-> "user", content |-> <<"hello", LocaleDirective, ": ", "en", ".">>,
     tool_calls |-> <<>>]

UserFollowUp == [role |-> "user", content |-> <<FollowUp>>, tool_calls |-> <<>>]

AssistantCalls ==
    [role |-> "assistant", content |-> <<"ok">>, tool_calls |-> << <<"call_1">> >>]

MessageKinds ==
    {SysProbe, SysProbeLong, SysVS, UserPlain, UserLocale, UserFollowUp,
     AssistantCalls}

SeqsUpTo(S, n) == UNION {[1..k -> S] : k \in 0..n}

ToolNoFunction == [type |-> "function", function |-> <<>>]

ToolNoParameters ==
    [type |-> "function", function |-> << [name |-> "f", parameters |-> <<>>] >>]

ToolWithParameters ==
    [type |-> "function",
     function |-> << [name |-> "g",
                      parameters |-> << [type |-> "object", properties |-> {"x"}] >>] >>]

ToolKinds == {ToolNoFunction, ToolNoParameters, ToolWithParameters}

\* A request with one user message and one member the handler does not name.
BaseBody ==
    [model |-> << <<"gpt-4">> >>, stream |-> <<>>, messages |-> << <<UserPlain>> >>,
     tools |-> <<>>, tool_choice |-> <<>>, tool_call |-> <<>>, functions |-> <<>>,
     function_call |-> <<>>, intent |-> <<>>, intent_threshold |-> <<>>,
     intent_content |-> <<>>, logprobs |-> <<>>, max_tokens |-> <<>>, n |-> <<>>,
     temperature |-> <<"0.7">>]

EmptyBody == [k \in DOMAIN BaseBody |-> <<>>]

\* The body in which the members named in S are present.
WithMembers(b, S) == [k \in DOMAIN b |-> IF k \in S THEN <<"set">> ELSE b[k]]

ToolMembers == {"tool_choice", "tool_call", "functions", "function_call"}

IntentMembers == {"intent", "intent_threshold", "intent_content", "logprobs"}

BaseEnv == [CHAT_USE_TOOLS |-> "true", CHAT_MAX_TOKENS |-> <<"2">>, CHAT_LOCALE |-> ""]

UserAgents == {"GitHubCopilotChat", "VSCopilotClient"}

Input(b, e, ua, wf, re) ==
    [body |-> b, env |-> e, userAgent |-> ua, wellFormed |-> wf, readErr |-> re]

\* Message lists against function_call, tool_choice, the tools flag, the
\* locale and the client.
MessageInputs ==
    { Input(WithMembers([BaseBody EXCEPT !.messages = <<ms>>], S),
            [BaseEnv EXCEPT !.CHAT_USE_TOOLS = ut, !.CHAT_LOCALE = loc],
            ua, TRUE, FALSE) :
        ms \in SeqsUpTo(MessageKinds, MaxMessages),
        S \in SUBSET {"function_call", "tool_choice"},
        ut \in {"", "true"}, loc \in {"", "zh-CN"}, ua \in UserAgents }

\* Bodies that are not well-formed JSON, in which gjson still finds the
\* members that precede the damage, and bodies whose read fails.
BrokenInputs ==
    { Input([BaseBody EXCEPT !.messages = <<ms>>],
            [BaseEnv EXCEPT !.CHAT_LOCALE = loc], ua, q[1], q[2]) :
        ms \in SeqsUpTo(MessageKinds, MaxMessages),
        loc \in {"", "zh-CN"}, ua \in UserAgents,
        q \in {<<FALSE, FALSE>>, <<TRUE, TRUE>>} }

\* Tool declarations against the tool members and the tools flag.
ToolInputs ==
    { Input(WithMembers([BaseBody EXCEPT !.tools = t, !.messages = <<ms>>], S),
            [BaseEnv EXCEPT !.CHAT_USE_TOOLS = ut],
            "GitHubCopilotChat", TRUE, FALSE) :
        t \in {<<>>} \cup {<<ts>> : ts \in SeqsUpTo(ToolKinds, MaxTools)},
        ms \in {<<UserPlain>>, <<SysProbe, UserPlain>>},
        S \in SUBSET ToolMembers,
        ut \in {"", "true", "false"} }

\* The limits against the ceiling, with the members that are only deleted or
\* passed through.
LimitInputs ==
    { Input([WithMembers(BaseBody, S) EXCEPT !.max_tokens = mt, !.n = nn,
                 !.model = << md >>, !.stream = o[1], !.temperature = o[2]],
            [BaseEnv EXCEPT !.CHAT_MAX_TOKENS = ceil],
            "GitHubCopilotChat", TRUE, FALSE) :
        mt \in {<<>>} \cup {<<k>> : k \in 0..MaxTokensValue},
        nn \in {<<>>} \cup {<<k>> : k \in 0..MaxNValue},
        md \in {<<"gpt-4">>, <<"gpt-4o", "mini">>},
        o \in {<< <<>>, <<"0.7">> >>, << <<FALSE>>, <<>> >>},
        S \in SUBSET IntentMembers,
        ceil \in {<<>>, <<"2">>, <<"x">>} }

ChatInputs == MessageInputs \cup BrokenInputs \cup ToolInputs \cup LimitInputs

\* What client.Do may come back with: an error, or a response.
UpstreamStatuses == {StatusOK, 429}

UpstreamBodies == {<<"a", "b">>, <<"b", "a">>}

NoResponse == [StatusCode |-> 0, Body |-> <<>>]

UpstreamOutcomes ==
    {[err |-> e, resp |-> NoResponse] : e \in {"canceled", "failed"}}
    \cup {[err |-> "nil", resp |-> [StatusCode |-> st, Body |-> bytes]] :
              st \in UpstreamStatuses, bytes \in UpstreamBodies}

ChatInit ==
    /\ LifeIdle
    /\ SplitIdle
    /\ EmbedIdle
    /\ ClientIdle
    /\ PoolIdle
    /\ \E in \in ChatInputs :
          /\ request = [body |-> in.body, userAgent |-> in.userAgent,
                        wellFormed |-> in.wellFormed, readErr |-> in.readErr]
          /\ env = in.env
    /\ cpc = "read"
    /\ body = EmptyBody
    /\ chatAPIURL = ""
    /\ status = 0
    /\ written = <<>>
    /\ upstream = <<>>

\* Lines 112-116: io.ReadAll(c.Request.Body); a read error gives 400.
ChatRead ==
    /\ cpc = "read"
    /\ IF request.readErr
       THEN /\ status' = StatusBadRequest
            /\ cpc' = "done"
            /\ body' = body
       ELSE /\ body' = request.body
            /\ cpc' = "rewrite"
            /\ status' = status
    /\ UNCHANGED <<lifeVars, splitVars, embedVars, clientVars, poolVars, request, env, chatAPIURL,
                   written, upstream>>

\* Lines 118-193: target selection and the rewrite rules.  The index panic
\* is recovered by gin's Recovery middleware, which answers 500.
ChatRewrite ==
    /\ cpc = "rewrite"
    /\ chatAPIURL' = SelectTarget(body).url
    /\ IF IndexPanic(SetModelAndStream(body), env.CHAT_LOCALE)
       THEN /\ cpc' = "panic"
            /\ status' = StatusInternalServerError
            /\ body' = SetModelAndStream(body)
       ELSE /\ cpc' = "route"
            /\ status' = status
            /\ body' = Rewrite(body, env)
    /\ UNCHANGED <<lifeVars, splitVars, embedVars, clientVars, poolVars, request, env, written, upstream>>

\* Lines 195-222: the probe short-circuit and the VS2022 compatibility
\* answers; line 211 indexes messages[len(messages)-1].
ChatShortCircuit ==
    /\ cpc = "route"
    /\ IF IsProbe(body)
       THEN /\ written' = <<DoneFrame>>
            /\ status' = StatusOK
            /\ cpc' = "done"
       ELSE IF Contains(<<request.userAgent>>, "VSCopilotClient")
       THEN IF Len(gjsonArray(body.messages)) = 0
            THEN /\ cpc' = "panic"
                 /\ status' = StatusInternalServerError
                 /\ written' = written
            ELSE IF IsVSFirstChat(body)
            THEN /\ written' = vs2022FirstChatTemplate
                 /\ status' = StatusOK
                 /\ cpc' = "done"
            ELSE IF IsVSFollowUp(body)
            THEN /\ written' = <<DoneFrame>>
                 /\ status' = StatusOK
                 /\ cpc' = "done"
            ELSE /\ cpc' = "dispatch"
                 /\ UNCHANGED <<status, written>>
       ELSE /\ cpc' = "dispatch"
            /\ UNCHANGED <<status, written>>
    /\ UNCHANGED <<lifeVars, splitVars, embedVars, clientVars, poolVars, request, env, body, chatAPIURL,
                   upstream>>

\* Mutant of ChatDispatch: a response is answered with 200 whatever its
\* status, and its body is copied only when the upstream answered 200.
ChatDispatchSuccessOnly ==
    /\ cpc = "dispatch"
    /\ \/ /\ status' = StatusInternalServerError
          /\ UNCHANGED <<written, upstream>>
       \/ \E out \in UpstreamOutcomes :
             /\ upstream' = Append(upstream,
                    [url |-> chatAPIURL, body |-> body, err |-> out.err, resp |-> out.resp])
             /\ IF out.err # "nil"
                THEN /\ status' = FailureStatus(out.err)
                     /\ written' = written
                ELSE /\ status' = StatusOK
                     /\ written' = IF out.resp.StatusCode = StatusOK
                                   THEN written \o out.resp.Body ELSE written
    /\ cpc' = "done"
    /\ UNCHANGED <<lifeVars, splitVars, embedVars, clientVars, poolVars, request, env, body, chatAPIURL>>

\* Lines 225-261: one client.Do with the rewritten body; a failed call is
\* answered by FailureStatus, a response is copied to the caller.  upstream
\* records the call together with what it came back with.
ChatDispatch ==
    /\ cpc = "dispatch"
    /\ \/ /\ status' = StatusInternalServerError      \* http.NewRequest failed
          /\ UNCHANGED <<written, upstream>>
       \/ \E out \in UpstreamOutcomes :
             /\ upstream' = Append(upstream,
                    [url |-> chatAPIURL, body |-> body, err |-> out.err, resp |-> out.resp])
             /\ IF out.err # "nil"
                THEN /\ status' = FailureStatus(out.err)
                     /\ written' = written
                ELSE /\ status' = out.resp.StatusCode
                     /\ written' = written \o out.resp.Body
    /\ cpc' = "done"
    /\ UNCHANGED <<lifeVars, splitVars, embedVars, clientVars, poolVars, request, env, body, chatAPIURL>>

ChatNext ==
    \/ ChatRead
    \/ ChatRewrite
    \/ ChatShortCircuit
    \/ ChatDispatch

SpecChat == ChatInit /\ [][ChatNext]_vars

(***************************************************************************)
(* EmbeddingClient (src/unnamed/part_001): one client, one SetModel call   *)
(* and up to MaxCallers GetEmbeddings calls on it, in any interleaving.    *)
(***************************************************************************)
\* os.Getenv("EMBEDDING_API_MODEL_NAME")
EnvModelName == "text-embedding-3-small"

\* The models a caller may name.
ModelNames == {EnvModelName, "custom-model"}

Callers == 1..MaxCallers

\* NewEmbeddingClient: model is the configured name, the mutex is free.
ClientInit ==
    /\ LifeIdle
    /\ SplitIdle
    /\ EmbedIdle
    /\ ChatIdle
    /\ PoolIdle
    /\ cmodel = EnvModelName
    /\ clientMutex = [writer |-> FALSE, readers |-> 0]
    /\ setpc = "idle"
    /\ setArg = ""
    /\ gpc = [g \in Callers |-> "idle"]
    /\ gafter = [g \in Callers |-> FALSE]
    /\ sentModel = [g \in Callers |-> ""]

\* SetModel(m): c.clientMutex.Lock()
SetModelLock ==
    /\ setpc = "idle"
    /\ ~clientMutex.writer
    /\ clientMutex.readers = 0
    /\ \E m \in ModelNames : setArg' = m
    /\ clientMutex' = [clientMutex EXCEPT !.writer = TRUE]
    /\ setpc' = "locked"
    /\ UNCHANGED <<lifeVars, splitVars, embedVars, chatVars, poolVars, cmodel, gpc,
                   gafter, sentModel>>

\* SetModel: c.model = model, then the deferred Unlock.
SetModelAssign ==
    /\ setpc = "locked"
    /\ cmodel' = setArg
    /\ clientMutex' = [clientMutex EXCEPT !.writer = FALSE]
    /\ setpc' = "done"
    /\ UNCHANGED <<lifeVars, splitVars, embedVars, chatVars, poolVars, setArg, gpc,
                   gafter, sentModel>>

\* GetEmbeddings: c.clientMutex.RLock().  gafter records that the call was
\* made after SetModel had returned.
GetEmbeddingsRLock(g) ==
    /\ gpc[g] = "idle"
    /\ ~clientMutex.writer
    /\ clientMutex' = [clientMutex EXCEPT !.readers = @ + 1]
    /\ gafter' = [gafter EXCEPT ![g] = (setpc = "done")]
    /\ gpc' = [gpc EXCEPT ![g] = "rlocked"]
    /\ UNCHANGED <<lifeVars, splitVars, embedVars, chatVars, poolVars, cmodel, setpc,
                   setArg, sentModel>>

\* GetEmbeddings: dimensions := c.dimensions; c.clientMutex.RUnlock()
GetEmbeddingsRUnlock(g) ==
    /\ gpc[g] = "rlocked"
    /\ clientMutex' = [clientMutex EXCEPT !.readers = @ - 1]
    /\ gpc' = [gpc EXCEPT ![g] = "unlocked"]
    /\ UNCHANGED <<lifeVars, splitVars, embedVars, chatVars, poolVars, cmodel, setpc,
                   setArg, gafter, sentModel>>

\* GetEmbeddings: reqBody := EmbeddingRequest{Model:
\* os.Getenv("EMBEDDING_API_MODEL_NAME"), ...}; c.httpClient.Do(req)
GetEmbeddingsSend(g) ==
    /\ gpc[g] = "unlocked"
    /\ sentModel' = [sentModel EXCEPT ![g] = EnvModelName]
    /\ gpc' = [gpc EXCEPT ![g] = "sent"]
    /\ UNCHANGED <<lifeVars, splitVars, embedVars, chatVars, poolVars, cmodel,
                   clientMutex, setpc, setArg, gafter>>

GetEmbeddingsStep == \E g \in Callers :
    GetEmbeddingsRLock(g) \/ GetEmbeddingsRUnlock(g) \/ GetEmbeddingsSend(g)

ClientNext ==
    \/ SetModelLock
    \/ SetModelAssign
    \/ GetEmbeddingsStep

SpecClient == ClientInit /\ [][ClientNext]_vars

(***************************************************************************)
(* generateEmbeddingsParallel with many workers (chunks.go 223-266).  The  *)
(* workers run the same code and differ only in their index, so this       *)
(* specification counts the workers at each position instead of naming     *)
(* them: it reaches more workers than the semaphore has permits.           *)
(***************************************************************************)
PoolInit ==
    /\ LifeIdle
    /\ SplitIdle
    /\ EmbedIdle
    /\ ChatIdle
    /\ ClientIdle
    /\ pn \in (SerialLimit + 1)..MaxWorkers
    /\ ppc = "spawn"
    /\ pi = 0
    /\ nSpawned = 0
    /\ nCalling = 0
    /\ nReturned = 0
    /\ nDone = 0
    /\ nCalls = 0
    /\ nErr = 0
    /\ pret = "none"

\* The permits taken from the semaphore channel.
Permits == nCalling + nReturned

\* for i := range chunks { wg.Add(1); go func(idx int) {...}(i) }
PoolSpawn ==
    /\ ppc = "spawn"
    /\ IF pi < pn
       THEN /\ pi' = pi + 1
            /\ nSpawned' = nSpawned + 1
            /\ ppc' = ppc
       ELSE /\ ppc' = "wait"
            /\ UNCHANGED <<pi, nSpawned>>
    /\ UNCHANGED <<lifeVars, splitVars, embedVars, chatVars, clientVars, pn, nCalling,
                   nReturned, nDone, nCalls, nErr, pret>>

\* Mutant of PoolAcquire: the send on the semaphore never blocks.
PoolAcquireUnbounded ==
    /\ nSpawned > 0
    /\ nSpawned' = nSpawned - 1
    /\ nCalling' = nCalling + 1
    /\ nCalls' = nCalls + 1
    /\ UNCHANGED <<lifeVars, splitVars, embedVars, chatVars, clientVars, pn, ppc, pi,
                   nReturned, nDone, nErr, pret>>

\* semaphore <- struct{}{}, then the worker calls GetEmbedding.
PoolAcquire ==
    /\ nSpawned > 0
    /\ Permits < SemaphoreCap
    /\ nSpawned' = nSpawned - 1
    /\ nCalling' = nCalling + 1
    /\ nCalls' = nCalls + 1
    /\ UNCHANGED <<lifeVars, splitVars, embedVars, chatVars, clientVars, pn, ppc, pi,
                   nReturned, nDone, nErr, pret>>

\* GetEmbedding returns: the worker writes its slot, or sends its error into
\* errChan (capacity len(chunks)) and returns.
PoolCallReturns ==
    /\ nCalling > 0
    /\ \/ nErr' = nErr
       \/ /\ nErr < pn
          /\ nErr' = nErr + 1
    /\ nCalling' = nCalling - 1
    /\ nReturned' = nReturned + 1
    /\ UNCHANGED <<lifeVars, splitVars, embedVars, chatVars, clientVars, pn, ppc, pi,
                   nSpawned, nDone, nCalls, pret>>

\* Mutant of PoolRelease: the worker gives its permit back but never calls
\* wg.Done.
PoolReleaseNoDone ==
    /\ nReturned > 0
    /\ nReturned' = nReturned - 1
    /\ nDone' = nDone
    /\ UNCHANGED <<lifeVars, splitVars, embedVars, chatVars, clientVars, pn, ppc, pi,
                   nSpawned, nCalling, nCalls, nErr, pret>>

\* The deferred calls: <-semaphore, then wg.Done()
PoolRelease ==
    /\ nReturned > 0
    /\ nReturned' = nReturned - 1
    /\ nDone' = nDone + 1
    /\ UNCHANGED <<lifeVars, splitVars, embedVars, chatVars, clientVars, pn, ppc, pi,
                   nSpawned, nCalling, nCalls, nErr, pret>>

\* wg.Wait(); close(errChan); select { case err := <-errChan: ... default: }
PoolCollect ==
    /\ ppc = "wait"
    /\ nDone = pn
    /\ pret' = IF nErr > 0 THEN "error" ELSE "nil"
    /\ ppc' = "done"
    /\ UNCHANGED <<lifeVars, splitVars, embedVars, chatVars, clientVars, pn, pi,
                   nSpawned, nCalling, nReturned, nDone, nCalls, nErr>>

PoolWorkerStep == PoolAcquire \/ PoolCallReturns \/ PoolRelease

PoolNext ==
    \/ PoolSpawn
    \/ PoolWorkerStep
    \/ PoolCollect

SpecPool == PoolInit /\ [][PoolNext]_vars

\* The goroutines are scheduled fairly and every upstream call returns.
SpecPoolFair == SpecPool /\ WF_vars(PoolNext)

(***************************************************************************)
(* Properties of the listener lifecycle                                    *)
(***************************************************************************)
\* main has passed the two-slot barrier.
Ready == mpc \notin {"goHTTP", "startHTTPS", "assignHTTPS", "wait1", "wait2"}

Servers == {httpServer} \cup {tls[i] : i \in 1..Len(tls)}

\* A listener task ended with an error of its own, not through Shutdown.
ListenerFailed(s) == s.err \in {"bind", "cert", "accept"}

SomeListenerFailed == \E s \in Servers : ListenerFailed(s)

TlsAccepting == {i \in 1..Len(tls) : Accepting(tls[i])}

\* C1: the gateway is reported ready only after both the plaintext listener
\* and the TLS listener have begun accepting connections.
C1_ReadyOnlyAfterBothAccepting ==
    Ready => httpServer.served /\ tls[1].served

\* C2: without a termination signal and without a listener failure, the
\* lifecycle context is never cancelled: a processed certificate reload does
\* not by itself lead to the coordinated shutdown.
C2_ReloadNeverCausesShutdown ==
    ctxDone => (quitSeen \/ quit > 0 \/ SomeListenerFailed)

\* C3: at most one TLS instance is accepting connections, and an instance
\* that is accepting is the most recently started one: every older instance
\* stopped accepting before its successor was started.
C3_AtMostOneTlsAccepting ==
    /\ Cardinality(TlsAccepting) <= 1
    /\ \A i \in TlsAccepting : i = Len(tls)

\* C3 witness: a reload replaced an instance that had been accepting, and
\* the new instance is accepting.
C3_Witness ==
    /\ Len(tls) >= 2
    /\ tls[1].served
    /\ Accepting(tls[2])

\* C4: when the instance started by a reload fails to load the certificate
\* material (and nothing else went wrong and no signal arrived), the
\* instance it replaced is still accepting and the lifecycle context is not
\* cancelled.
C4_ReloadFailureKeepsListener ==
    \A i \in 2..Len(tls) :
        ( /\ tls[i].err = "cert"
          /\ tls[i - 1].served
          /\ \A s \in Servers \ {tls[i]} : ~ListenerFailed(s)
          /\ ~quitSeen /\ quit = 0 )
        => (Accepting(tls[i - 1]) /\ ~ctxDone)

\* Exactly one of the two listeners (plaintext, TLS) is accepting.
HalfServing ==
    /\ ~ctxDone
    /\ Accepting(httpServer) # (TlsAccepting # {})
\* C5: after a listener task exits with an error before any shutdown was
\* requested, the gateway never remains in a state with exactly one listener
\* serving: some goroutine can still take a step towards the cancellation.
C5_NoStuckHalfServing ==
    (SomeListenerFailed /\ HalfServing) => ENABLED GoroutineStep

C7_ReloadsSerialized ==
    /\ hpc \in {"select", "shutOld", "startNew", "exited"} => httpsServer = Len(tls)
    /\ hpc = "assign" => httpsServer = Len(tls) - 1
    /\ hpc = "shutOld" => ~tls[httpsServer].shut
    /\ \A i \in 1..(Len(tls) - 1) : tls[i].shut
    /\ hpc = "startNew" => tls[Len(tls)].shut

\* C7 witness: a second reload begins after the first one has completed,
\* its notification having arrived while the first was in progress.
C7_Witness ==
    /\ hpc = "shutOld"
    /\ Len(tls) = 2
    /\ httpsServer = 2
    /\ certChanges = 2

\* C29: under fair scheduling of the goroutines, startup always passes the
\* readiness barrier: main receives both readiness tokens and starts the
\* goroutine that handles reloads and shutdown.
C29_StartupPassesBarrier == <>(Ready /\ hpc # "none")

(***************************************************************************)
(* Properties of SplitIntoChunks                                           *)
(***************************************************************************)
\* The text a chunk was sealed from: the text its fingerprint hashes.
UnwrappedText(c) == c.Hash.sha256

RECURSIVE ConcatTexts(_)
ConcatTexts(cs) ==
    IF cs = <<>> THEN <<>> ELSE UnwrappedText(Head(cs)) \o ConcatTexts(Tail(cs))

\* C8: content whose size is at most the chunk budget comes back as exactly
\* one chunk whose unwrapped text is the entire content.
C8_SmallContentOneChunk ==
    (spc = "done" /\ Len(content) <= getChunkSize) =>
        /\ Len(chunks) = 1
        /\ UnwrappedText(chunks[1]) = content

\* C9: the unwrapped texts of the returned chunks, concatenated in order,
\* are exactly the content.
C9_ConcatReproducesContent ==
    spc = "done" => ConcatTexts(chunks) = content

\* The number of lines in a chunk text: each line ends with its newline.
LineCount(text) == Cardinality({k \in 1..Len(text) : text[k] = NL})

\* lines[a], ..., lines[b], each followed by a newline.
RECURSIVE JoinLines(_, _)
JoinLines(a, b) ==
    IF a > b THEN <<>> ELSE Append(lines[a], NL) \o JoinLines(a + 1, b)

\* The number of lines in the chunks before chunk j.
RECURSIVE LinesBefore(_)
LinesBefore(j) ==
    IF j = 1 THEN 0
    ELSE LinesBefore(j - 1) + LineCount(UnwrappedText(chunks[j - 1]))

\* C27: every chunk's unwrapped text is one or more whole input lines in
\* their order, the lines that follow those of the chunk before; a chunk
\* larger than the chunk budget is a single line, and a chunk of two or
\* more lines is within the budget.
C27_NeverSplitsInsideLine ==
    spc = "done" =>
        \A j \in 1..Len(chunks) :
            LET text == UnwrappedText(chunks[j])
                n == LineCount(text)
            IN  /\ n >= 1
                /\ LinesBefore(j) + n <= Len(lines)
                /\ text = JoinLines(LinesBefore(j) + 1, LinesBefore(j) + n)
                /\ Len(text) > getChunkSize => n = 1
                /\ n >= 2 => Len(text) <= getChunkSize

\* C27 witness: SplitIntoChunks returned a chunk of one line that is larger
\* than the budget, after another chunk.
C27_Witness ==
    /\ spc = "done"
    /\ Len(chunks) >= 2
    /\ Len(UnwrappedText(chunks[Len(chunks)])) > getChunkSize
    /\ LineCount(UnwrappedText(chunks[Len(chunks)])) = 1
    /\ LineCount(UnwrappedText(chunks[1])) >= 1

\* C28: for every chunk returned by SplitIntoChunks, whatever the content
\* and the path, extractPlainText of the chunk's annotated text is the text
\* whose hash is the chunk's fingerprint.
C28_ExtractedTextIsFingerprintedText ==
    spc = "done" =>
        \A j \in 1..Len(chunks) :
            Sha256(extractPlainText(chunks[j].Text)) = chunks[j].Hash

\* C30: the byte ranges of the returned chunks are contiguous and start at
\* 0: the first chunk starts at 0, each chunk starts where the one before
\* ends, each range is as long as the chunk's unwrapped text, and there is
\* at least one chunk, for empty content too.
C30_RangesContiguousFromZero ==
    spc = "done" =>
        /\ Len(chunks) >= 1
        /\ chunks[1].Range.Start = 0
        /\ \A j \in 2..Len(chunks) :
              chunks[j].Range.Start = chunks[j - 1].Range.End
        /\ \A j \in 1..Len(chunks) :
              chunks[j].Range.End - chunks[j].Range.Start
                  = Len(UnwrappedText(chunks[j]))

\* C30 witness: SplitIntoChunks returned three chunks or more, the last one
\* starting past 0.
C30_Witness ==
    /\ spc = "done"
    /\ Len(chunks) >= 3
    /\ chunks[Len(chunks)].Range.Start > 0

(***************************************************************************)
(* Properties of GenerateEmbeddings                                        *)
(***************************************************************************)
\* C10: when no upstream call failed, GenerateEmbeddings has given every
\* chunk i the stub's vector for the text extracted from chunk i and returns
\* nil, on the serial path and on the parallel path alike.
C10_SerialParallelSameAssignment ==
    (epc = "done" /\ upFailed = {}) =>
        /\ eret = NilError
        /\ \A i \in 1..Len(echunks) :
              echunks[i].Embedding = StubVector(extractPlainText(echunks[i].Text))

\* C10 witness: the parallel path has completed without an upstream failure
\* on chunks whose neighbours differ, each with its vector.
C10_Witness ==
    /\ epc = "done"
    /\ Len(echunks) > SerialLimit
    /\ upFailed = {}
    /\ echunks[1].Embedding # <<>>
    /\ echunks[1].Embedding # echunks[2].Embedding
    /\ \A i \in 1..Len(echunks) : wpc[i] = "done"

\* C11: on the parallel path (more than SerialLimit chunks) the call returns
\* an error (a value other than nil) exactly when at least one
\* worker's upstream call failed, and on return every chunk whose call did
\* not fail holds its embedding.
C11_ParallelErrorIffWorkerFailed ==
    (epc = "done" /\ Len(echunks) > SerialLimit) =>
        /\ (eret # NilError) <=> (upFailed # {})
        /\ \A i \in 1..Len(echunks) :
               i \notin upFailed =>
                   echunks[i].Embedding = StubVector(extractPlainText(echunks[i].Text))

\* C11 witness: the parallel path has returned an error after exactly one
\* worker failed, and the other chunks carry their vectors.
C11_Witness ==
    /\ epc = "done"
    /\ Len(echunks) > SerialLimit
    /\ Cardinality(upFailed) = 1
    /\ eret # NilError
    /\ \A i \in 1..Len(echunks) :
           i \notin upFailed => echunks[i].Embedding # <<>>

\* C24: on the parallel path every step keeps the chunk sequence's length
\* and each chunk's fingerprint, text and ranges in place; an embedding
\* changes only in the step in which worker i, holding its permit, writes
\* slot i, that slot was empty until then, and no other chunk changes in
\* that step.
C24_WorkerWritesOwnSlotOnly ==
    [][Len(echunks) > SerialLimit =>
          /\ Len(echunks') = Len(echunks)
          /\ \A i \in 1..Len(echunks) :
                /\ [echunks'[i] EXCEPT !.Embedding = <<>>]
                       = [echunks[i] EXCEPT !.Embedding = <<>>]
                /\ echunks'[i].Embedding # echunks[i].Embedding =>
                      /\ wpc[i] = "holding"
                      /\ wpc'[i] = "release"
                      /\ echunks[i].Embedding = <<>>
                      /\ \A j \in 1..Len(echunks) : j # i => echunks'[j] = echunks[j]]_vars

\* C24 witness: the parallel path has returned with every slot written and
\* the chunks, apart from their embeddings, as they were handed in.
C24_Witness ==
    /\ epc = "done"
    /\ Len(echunks) > SerialLimit
    /\ \A i \in 1..Len(echunks) : echunks[i].Embedding # <<>>
    /\ \E v \in 0..1 :
          [i \in 1..Len(echunks) |-> [echunks[i] EXCEPT !.Embedding = <<>>]]
              = EmbedInput(Len(echunks), v)

\* C26: on the serial path (1 to SerialLimit chunks), when the upstream
\* first fails at chunk k the call returns that chunk's error, the chunks
\* before k hold their embeddings, chunk k and the chunks after it hold an
\* empty embedding and the upstream was called for chunks 1..k only; with
\* no chunk at all the call returns nil without an upstream call.
C26_SerialStopsAtFirstFailure ==
    (epc = "done" /\ Len(echunks) <= SerialLimit) =>
        /\ Len(echunks) = 0 => (eret = NilError /\ upCalled = {})
        /\ \A k \in upFailed :
              /\ eret = [chunk |-> k]
              /\ upCalled = 1..k
              /\ \A i \in 1..Len(echunks) :
                    echunks[i].Embedding =
                        IF i < k THEN StubVector(extractPlainText(echunks[i].Text))
                        ELSE <<>>

\* C26 witness: a serial call over several chunks has returned the error of
\* a chunk that has both a predecessor and a successor.
C26_Witness ==
    /\ epc = "done"
    /\ Len(echunks) <= SerialLimit
    /\ \E k \in upFailed :
          /\ 1 < k
          /\ k < Len(echunks)
          /\ eret = [chunk |-> k]
          /\ echunks[k - 1].Embedding # <<>>
          /\ echunks[k + 1].Embedding = <<>>

(***************************************************************************)
(* Properties of ChatCompletions                                           *)
(***************************************************************************)
\* The handler has returned after sending the request upstream.
Dispatched == cpc = "done" /\ upstream # <<>>

\* The body of the request sent upstream.
Forwarded == upstream[1].body

\* The body the caller sent.
Inbound == request.body

\* C12: in every request dispatched upstream the forwarded n is 1 when the
\* inbound n is greater than 1, and is the inbound n (present or absent)
\* otherwise.
C12_NForcedToOne ==
    Dispatched =>
        IF Inbound.n # <<>> /\ Inbound.n[1] > 1
        THEN Forwarded.n = <<1>>
        ELSE Forwarded.n = Inbound.n

\* C12 witness: a request with n = 3 was dispatched with n = 1.
C12_Witness ==
    /\ Dispatched
    /\ Inbound.n = <<3>>
    /\ Forwarded.n = <<1>>

\* CHAT_MAX_TOKENS holds a number: a ceiling is configured.
CeilingConfigured ==
    /\ env.CHAT_MAX_TOKENS # <<>>
    /\ \A i \in 1..Len(env.CHAT_MAX_TOKENS) : env.CHAT_MAX_TOKENS[i] \in Digits

\* C13: in every request dispatched upstream, with a ceiling configured the
\* forwarded max_tokens is the ceiling when the inbound max_tokens exceeds
\* it and the inbound max_tokens (present or absent) otherwise; with no
\* ceiling configured the inbound max_tokens is forwarded as it is.
C13_MaxTokensClampedToCeiling ==
    Dispatched =>
        IF /\ CeilingConfigured
           /\ Inbound.max_tokens # <<>>
           /\ Inbound.max_tokens[1] > Atoi(env.CHAT_MAX_TOKENS)
        THEN Forwarded.max_tokens = <<Atoi(env.CHAT_MAX_TOKENS)>>
        ELSE Forwarded.max_tokens = Inbound.max_tokens

\* The first message of the inbound body has the system role and carries the
\* persona preamble without the disambiguation marker.
ProbeSignature ==
    LET messages == gjsonArray(Inbound.messages)
    IN  /\ messages # <<>>
        /\ messages[1].role = "system"
        /\ Contains(messages[1].content, Preamble)
        /\ ~Contains(messages[1].content, Marker)

\* C14: a request with the probe signature and no tool_choice is answered
\* with the terminating stream marker and no upstream call; a request in
\* which the caller set tool_choice is not answered by the probe rule
\* (for a client other than VS2022 the probe rule is the only short-circuit),
\* whatever CHAT_USE_TOOLS is.
C14_ProbeShortCircuit ==
    (cpc \in {"done", "panic"} /\ ~request.readErr) =>
        /\ (ProbeSignature /\ Inbound.tool_choice = <<>>) =>
               (written = <<DoneFrame>> /\ upstream = <<>>)
        /\ (Inbound.tool_choice # <<>> /\ request.userAgent # "VSCopilotClient") =>
               written # <<DoneFrame>>

\* The members of the request document that some rewrite rule names.
RewrittenMembers ==
    {"model", "stream", "messages", "tools", "tool_choice", "tool_call",
     "functions", "function_call", "intent", "intent_threshold",
     "intent_content", "logprobs", "max_tokens", "n"}

\* C15: in every request dispatched upstream, every member no rewrite rule
\* names has its inbound value in the forwarded body; the message list keeps
\* its length and each message its role, and every message but the last its
\* content.
C15_UnnamedMembersUnchanged ==
    Dispatched =>
        LET im == gjsonArray(Inbound.messages)
            fm == gjsonArray(Forwarded.messages)
        IN  /\ \A k \in (DOMAIN Inbound) \ RewrittenMembers : Forwarded[k] = Inbound[k]
            /\ (Forwarded.messages = <<>>) <=> (Inbound.messages = <<>>)
            /\ Len(fm) = Len(im)
            /\ \A i \in 1..Len(im) : fm[i].role = im[i].role
            /\ \A i \in 1..(Len(im) - 1) : fm[i].content = im[i].content

\* C15 witness: a request with a temperature and intent members was
\* dispatched with the intent members removed and the temperature kept.
C15_Witness ==
    /\ Dispatched
    /\ Inbound.temperature # <<>>
    /\ Inbound.intent # <<>>
    /\ Forwarded.intent = <<>>
    /\ Forwarded.temperature = Inbound.temperature

\* The number of times tok occurs in s.
Occurrences(s, tok) == Cardinality({i \in 1..Len(s) : s[i] = tok})

\* C16: in every request dispatched while CHAT_LOCALE is set, the last
\* message of the forwarded body carries the locale directive exactly once,
\* appended when the inbound content lacked it and the content untouched
\* when it had it, and every other message keeps its content, with or
\* without function_call in the request; and a request with an empty
\* message list does not make the handler panic.
C16_LocaleDirectiveOnce ==
    LET im == gjsonArray(Inbound.messages)
    IN  /\ (Dispatched /\ env.CHAT_LOCALE # "" /\ im # <<>>) =>
               LET fm == gjsonArray(Forwarded.messages)
                   last == Len(im)
               IN  /\ Len(fm) = Len(im)
                   /\ Occurrences(fm[last].content, LocaleDirective) = 1
                   /\ fm[last].content =
                          IF Contains(im[last].content, LocaleDirective)
                          THEN im[last].content
                          ELSE im[last].content
                                   \o <<LocaleDirective, ": ", env.CHAT_LOCALE, ".">>
                   /\ \A i \in 1..(last - 1) : fm[i].content = im[i].content
        /\ (im = <<>>) => cpc # "panic"

\* C17: the handler makes at most one upstream call; when that call fails
\* because the inbound request was cancelled the caller gets 408, and when
\* it fails for another transport reason the caller gets 500.
C17_OneCallAndFailureStatus ==
    /\ Len(upstream) <= 1
    /\ Dispatched =>
           /\ upstream[1].err = "canceled" => status = StatusRequestTimeout
           /\ upstream[1].err = "failed" => status = StatusInternalServerError

\* C17 witness: the single upstream call was cancelled and the caller got 408.
C17_Witness ==
    /\ Dispatched
    /\ Len(upstream) = 1
    /\ upstream[1].err = "canceled"
    /\ status = StatusRequestTimeout

\* C18: a request whose body is not well-formed JSON is answered with 400,
\* with no upstream call and no short-circuit answer.
C18_MalformedBodyRejected ==
    (cpc \in {"done", "panic"} /\ ~request.wellFormed) =>
        /\ status = StatusBadRequest
        /\ upstream = <<>>
        /\ written = <<>>

\* CHAT_USE_TOOLS does not parse as true: tools are disabled.
ToolsDisabled == ~ParseBool(env.CHAT_USE_TOOLS)

\* C19: with tools disabled, a body dispatched upstream contains none of
\* tools, tool_choice, functions, function_call and tool_call.
C19_NoToolMembersWhenDisabled ==
    (Dispatched /\ ToolsDisabled) =>
        \A k \in {"tools", "tool_choice", "functions", "function_call", "tool_call"} :
            Forwarded[k] = <<>>

\* C19 witness: a request carrying all five members was dispatched with
\* tools disabled and without any of them.
C19_Witness ==
    /\ Dispatched
    /\ ToolsDisabled
    /\ \A k \in {"tools", "tool_choice", "functions", "function_call", "tool_call"} :
           Inbound[k] # <<>> /\ Forwarded[k] = <<>>

\* The tool t carries a parameters schema.
HasParameters(t) == t.function # <<>> /\ t.function[1].parameters # <<>>

\* C20 as stated: with tools enabled, every tool of a dispatched body has a
\* parameters schema, the default one when the inbound tool had none and
\* the inbound one otherwise.
C20_EveryToolHasParameters ==
    (Dispatched /\ ~ToolsDisabled) =>
        LET it == gjsonArray(Inbound.tools)
            ft == gjsonArray(Forwarded.tools)
        IN  /\ Len(ft) = Len(it)
            /\ \A i \in 1..Len(it) :
                  /\ HasParameters(ft[i])
                  /\ IF HasParameters(it[i])
                     THEN ft[i] = it[i]
                     ELSE ft[i].function[1].parameters = <<DefaultParameters>>

\* C20 amended: with tools enabled, every tool of a dispatched body that has
\* a function object has a parameters schema, the default one when the
\* inbound function had none and the inbound one otherwise; a tool without
\* a function object is forwarded as it came.
C20_EveryFunctionToolHasParameters ==
    (Dispatched /\ ~ToolsDisabled) =>
        LET it == gjsonArray(Inbound.tools)
            ft == gjsonArray(Forwarded.tools)
        IN  /\ Len(ft) = Len(it)
            /\ \A i \in 1..Len(it) :
                  IF it[i].function = <<>> THEN ft[i] = it[i]
                  ELSE IF HasParameters(it[i]) THEN ft[i] = it[i]
                  ELSE ft[i] = [it[i] EXCEPT !.function =
                                   << [@[1] EXCEPT !.parameters = <<DefaultParameters>>] >>]

\* C20 witness: a request declaring a tool with a schema and a tool without
\* one was dispatched with tools enabled, the second carrying the default
\* schema.
C20_Witness ==
    /\ Dispatched
    /\ ~ToolsDisabled
    /\ Len(gjsonArray(Inbound.tools)) = 2
    /\ HasParameters(gjsonArray(Inbound.tools)[1])
    /\ gjsonArray(Inbound.tools)[2].function # <<>>
    /\ ~HasParameters(gjsonArray(Inbound.tools)[2])
    /\ gjsonArray(Forwarded.tools)[2].function[1].parameters = <<DefaultParameters>>

\* C21: whenever the upstream answers a dispatched request, whatever the
\* status of its answer, the status sent to the caller is the upstream's
\* status and the bytes sent to the caller are the bytes of the upstream
\* body in their order.
C21_ResponsePassedThrough ==
    (Dispatched /\ upstream[1].err = "nil") =>
        /\ status = upstream[1].resp.StatusCode
        /\ written = upstream[1].resp.Body

\* C21 witness: an upstream answer with a status other than 200 reached the
\* caller with that status and its two bytes in order.
C21_Witness ==
    /\ Dispatched
    /\ upstream[1].err = "nil"
    /\ upstream[1].resp.StatusCode # StatusOK
    /\ status = upstream[1].resp.StatusCode
    /\ written = <<"b", "a">>

(***************************************************************************)
(* Properties of the embedding client                                      *)
(***************************************************************************)
\* C22: the model a GetEmbeddings call sends upstream is the client's active
\* model: a call made after SetModel(m) returned carries m, and any call
\* carries the model the client was created with or m.
C22_SentModelIsActiveModel ==
    \A g \in Callers :
        gpc[g] = "sent" =>
            /\ gafter[g] => sentModel[g] = setArg
            /\ sentModel[g] \in
                   {EnvModelName} \cup (IF setpc = "idle" THEN {} ELSE {setArg})

(***************************************************************************)
(* Properties of the worker pool                                           *)
(***************************************************************************)
\* C23: during a parallel call at most SemaphoreCap upstream calls are
\* outstanding; every upstream call is made by a worker holding a permit,
\* and the permit is released after the call, failed or not, so that none
\* is held when the call returns.
C23_AtMostTenOutstanding ==
    /\ nCalling <= SemaphoreCap
    /\ Permits <= SemaphoreCap
    /\ nCalls = nCalling + nReturned + nDone
    /\ ppc = "done" => (Permits = 0 /\ nCalls = pn)

\* C23 witness: SemaphoreCap calls are outstanding while another worker
\* waits for a permit, after a call that failed gave its permit back.
C23_Witness ==
    /\ nCalling = SemaphoreCap
    /\ nSpawned > 0
    /\ nErr > 0
    /\ nDone > 0

\* C25: with fair scheduling and every upstream call returning, a parallel
\* call terminates for every number of chunks and every set of failing
\* calls: eventually the caller has returned, every worker having made its
\* upstream call and finished.
C25_ParallelTerminates ==
    <>(ppc = "done" /\ nCalls = pn /\ nDone = pn /\ Permits = 0)

\* C25 witness: a call with more workers than permits has returned after
\* every one of its upstream calls failed.
C25_Witness ==
    /\ ppc = "done"
    /\ pn > SemaphoreCap
    /\ nErr = pn
    /\ nDone = pn
    /\ pret = "error"

====
